---- MODULE Spec2Model ----
(***************************************************************************)
(* git-aicommit: stage the pending changes, ask an Ollama model for a      *)
(* commit title and description, walk the user through a review loop and   *)
(* commit (or hand the message to lazygit), resetting the index at the end.*)
(*                                                                         *)
(* The repository holds three revisions of the workflow; `variant` says    *)
(* which one runs:                                                         *)
(*   "builder"  src/src/main.mts:84-271      class CommitBuilder           *)
(*   "main"     src/unnamed/part_000:96-236  function main, ask() loop     *)
(*   "first"    src/unnamed/part_000:300-376 earliest main, single y/N     *)
(*                                                                         *)
(* Strings are sequences of tokens.  A token is an indivisible run of      *)
(* characters; every marker the program inserts is made of tokens of its   *)
(* own, so concatenation is \o and the empty string is << >>.              *)
(***************************************************************************)
EXTENDS Integers, Sequences, FiniteSets, TLC

(* ------------------------------ bounds -------------------------------- *)

\* how many times the review loop may go round again in one invocation
MaxReviews == 2

(* --------------------------- string helpers --------------------------- *)

NL == "\n"

IsSpace(tok) == tok = NL

RECURSIVE TrimStart(_)
TrimStart(s) ==
    IF s # << >> /\ IsSpace(Head(s)) THEN TrimStart(Tail(s)) ELSE s

RECURSIVE TrimEnd(_)
TrimEnd(s) ==
    IF s # << >> /\ IsSpace(s[Len(s)])
    THEN TrimEnd(SubSeq(s, 1, Len(s) - 1))
    ELSE s

\* String.prototype.trim() as used on every subprocess stdout
Trim(s) == TrimEnd(TrimStart(s))

(* ----------------------- program text constants ----------------------- *)

WipMarker == << "WIP: " >>
SkipCi == << "[skip ci]" >>
FooterPrefix == << "Commit message by " >>

\* --model default of the ask() revision, and the model the earliest
\* revision hard-codes
DefaultModel == << "mistral:latest" >>

\* the fixed instruction text of the prompts, one token per sentence group
Directive == << "Write a git commit message ... Do not mention refactoring." >>
BlankHint == << "If the description does not add any new information leave the description blank." >>
DiffHeader == << "The git diff:" >>
FirstDirective == << "Write a git commit message with a title and description based on the following changes:" >>

HandoffPath == << "<gitRoot>", ".git", "LAZYGIT_PENDING_COMMIT" >>

(* ------------------------- optional values ---------------------------- *)

\* an optional string (args.model: string | undefined)
NoString == [defined |-> FALSE, value |-> << >>]
Given(s) == [defined |-> TRUE, value |-> s]

\* a ?? b
Coalesce(a, b) == IF a.defined THEN a.value ELSE b

\* what run()/main() hands to process.exit: a number, or undefined after a
\* bare `return;` or falling off the end
ReturnUndefined == [defined |-> FALSE, value |-> 0]
Return(n) == [defined |-> TRUE, value |-> n]

\* process.exit(code): an undefined code exits with status 0
ExitStatusOf(ret) == IF ret.defined THEN ret.value ELSE 0

(* ------------------------ the model's responses ----------------------- *)

\* JSON values; `s` is the text the value interpolates as
JNum == [type |-> "number", s |-> << "0" >>]
JNull == [type |-> "null", s |-> << "null" >>]
JStr(s) == [type |-> "string", s |-> s]
JObj(f) == [type |-> "object", s |-> << "[object Object]" >>, fields |-> f]
JUndefined == [type |-> "undefined", s |-> << "undefined" >>]

\* value[key], undefined when the value has no such property
Property(value, key) ==
    IF value.type = "object" /\ key \in DOMAIN value.fields
    THEN value.fields[key]
    ELSE JUndefined

\* response.message.content: text that is JSON for `value`, or no JSON at all
Document(v) == [syntax |-> "json", value |-> v]
Garbage == [syntax |-> "text"]

\* JSON.parse
JSONparse(content) ==
    IF content.syntax = "json"
    THEN [ok |-> TRUE, value |-> content.value]
    ELSE [ok |-> FALSE]

\* a required string field of the CommitMessage schema
StringField(value, key) == Property(value, key).type = "string"

MutAcceptsMissingDescription(value) ==
    /\ value.type = "object"
    /\ StringField(value, "commitTitle")

\* v.parse(CommitMessage, value) / CommitMessage.parse(value): an object with
\* both string fields; unknown keys are dropped from the output
CommitMessageAccepts(value) ==
    /\ value.type = "object"
    /\ StringField(value, "commitTitle")
    /\ StringField(value, "commitDescription")

\* the two decode stages; ok = FALSE is the thrown parse/validation error
Decode(content) ==
    LET parsed == JSONparse(content) IN
    IF parsed.ok /\ CommitMessageAccepts(parsed.value)
    THEN [ok |-> TRUE,
          commitTitle |-> Property(parsed.value, "commitTitle").s,
          commitDescription |-> Property(parsed.value, "commitDescription").s]
    ELSE [ok |-> FALSE, commitTitle |-> << >>, commitDescription |-> << >>]

MutComposeDropsEmptyDescription(title, description, modelName, wip) ==
    LET commitTitle == IF wip THEN WipMarker \o title ELSE title
        body == IF description = << >>
                THEN commitTitle
                ELSE commitTitle \o << NL, NL >> \o description
        message == body \o << NL, NL >> \o FooterPrefix \o modelName
    IN  IF wip THEN message \o << NL >> \o SkipCi ELSE message

MutComposeWithoutSkipCi(title, description, modelName, wip) ==
    (IF wip THEN WipMarker \o title ELSE title) \o << NL, NL >> \o description
    \o << NL, NL >> \o FooterPrefix \o modelName

\* the title after the WIP step, and the template literal with the footer
Compose(title, description, modelName, wip) ==
    LET commitTitle == IF wip THEN WipMarker \o title ELSE title
        message == commitTitle \o << NL, NL >> \o description
                   \o << NL, NL >> \o FooterPrefix \o modelName
    IN  IF wip THEN message \o << NL >> \o SkipCi ELSE message

\* the earliest revision's -m argument: title and description, no footer
FirstCompose(title, description, wip) ==
    (IF wip THEN WipMarker \o title ELSE title) \o << NL, NL >> \o description

(* ------------------------------ inputs -------------------------------- *)

\* titles and descriptions the model may answer with: plain ones, an empty
\* description, and ones that already carry the program's own markers
Drafts ==
    { [title |-> << "Add foo" >>, description |-> << >>],
      [title |-> << "Add foo" >>, description |-> << "details" >>],
      [title |-> << "WIP: ", "draft" >>, description |-> << "[skip ci]" >>] }

ValidResponses ==
    { Document(JObj([commitTitle |-> JStr(d.title),
                     commitDescription |-> JStr(d.description)])) : d \in Drafts }
    \cup { Document(JObj([commitTitle |-> JStr(<< "Add foo" >>),
                          commitDescription |-> JStr(<< "details" >>),
                          extra |-> JNum])) }

InvalidResponses ==
    { Garbage,
      Document(JNum),
      Document(JNull),
      Document(JObj([commitTitle |-> JStr(<< "x" >>)])),
      Document(JObj([commitDescription |-> JStr(<< "d" >>)])),
      Document(JObj([commitTitle |-> JNum, commitDescription |-> JStr(<< >>)])),
      Document(JObj([commitTitle |-> JStr(<< "x" >>), commitDescription |-> JNull])) }

Responses == ValidResponses \cup InvalidResponses

\* the names ollama.list() reports
InstalledModels == { << "m1" >>, << "m2" >> }

(* ------------------------------- git ---------------------------------- *)

\* the paths of the repository: "t" is tracked in HEAD, "u" is a new file
Paths == { "t", "u" }
NewFiles == { "u" }
PathOrder == << "t", "u" >>

CleanIndex == [staged |-> {}, ita |-> {}]

\* git ls-files --others --exclude-standard .
Untracked(wt, idx) == (wt \cap NewFiles) \ (idx.staged \cup idx.ita)

\* one output line per path of `set`, in path order
RECURSIVE Listing(_, _, _)
Listing(prefix, set, i) ==
    IF i > Len(PathOrder) THEN << >>
    ELSE (IF PathOrder[i] \in set THEN << prefix, PathOrder[i], NL >> ELSE << >>)
         \o Listing(prefix, set, i + 1)

\* stdout of git status --porcelain
StatusStdout(wt, idx) == Listing("M ", wt \cup idx.staged \cup idx.ita, 1)

\* stdout of git diff -U10 --cached
DiffStdout(idx) == Listing("diff --git ", idx.staged, 1)

\* ... | xargs git add --intent-to-add
IntentToAdd(wt, idx) == [idx EXCEPT !.ita = @ \cup Untracked(wt, idx)]

\* git add .
AddAll(wt, idx) == [staged |-> wt, ita |-> {}]

\* git add . -p: the user stages any of the offered changes
AddPatchResults(wt, idx) ==
    { [staged |-> idx.staged \cup s, ita |-> idx.ita \ s] : s \in SUBSET wt }

\* git reset HEAD
ResetHead(idx) == CleanIndex

\* git commit has something to record
Committable(idx) == idx.staged # {}

(* ------------------------------ state --------------------------------- *)

VARIABLES
    variant,        \* which revision of the program runs
    args,           \* parsed command line
    pc,             \* position in the workflow
    prompt,         \* this.prompt / const prompt
    model,          \* this.model
    message,        \* this.message / let message
    commitMessage,  \* the decoded response of the last generation
    refine,         \* let refine (ask() revision)
    answer,         \* the last review answer
    code,           \* let code: what process.exit receives
    thrown,         \* an exception is propagating
    status,         \* the exit status, once pc = "exited"
    worktree,       \* paths whose working tree content differs from HEAD
    index,          \* staged paths and intent-to-add entries
    history,        \* commits created by this invocation
    pending,        \* the file .git/LAZYGIT_PENDING_COMMIT
    calls,          \* log of the external calls made, in order
    chat,           \* model and prompt of the last ollama.chat request
    reply,          \* response.message.content of the last ollama.chat
    shown,          \* what the review prompt last printed as the message
    reviews,        \* review prompts answered so far
    outcome,        \* how the workflow body ended
    pre             \* the index before the invocation

vars == << variant, args, pc, prompt, model, message, commitMessage, refine,
           answer, code, thrown, status, worktree, index, history, pending,
           calls, chat, reply, shown, reviews, outcome, pre >>

config == << variant, args, pre >>
git == << worktree, index, history, pending >>
data == << prompt, model, message, commitMessage, refine, chat, reply, shown >>

NoDraft == [ok |-> FALSE, commitTitle |-> << >>, commitDescription |-> << >>]
NoChat == [sent |-> FALSE, model |-> << >>, prompt |-> << >>]
NoFile == [exists |-> FALSE, path |-> << >>, content |-> << >>]

Variants == { "builder", "main", "first" }

ArgsOf(v) ==
    IF v = "builder"
    THEN [interactive : BOOLEAN, lazygit : BOOLEAN, wip : BOOLEAN,
          model : { NoString, Given(<< "m1" >>) }]
    ELSE IF v = "main"
    THEN [interactive : BOOLEAN, lazygit : BOOLEAN, wip : BOOLEAN,
          model : { Given(DefaultModel), Given(<< "m1" >>) }]
    ELSE [interactive : { FALSE }, lazygit : { FALSE }, wip : BOOLEAN,
          model : { Given(DefaultModel) }]

Init ==
    /\ variant \in Variants
    /\ args \in ArgsOf(variant)
    /\ pc = "start"
    /\ prompt = << >>
    /\ model = << >>
    /\ message = << >>
    /\ commitMessage = NoDraft
    /\ refine = << >>
    /\ answer = ""
    /\ code = Return(0)
    /\ thrown = FALSE
    /\ status = 0
    /\ worktree \in SUBSET Paths
    /\ \E s \in SUBSET (worktree \ NewFiles) : index = [staged |-> s, ita |-> {}]
    /\ history = << >>
    /\ pending = NoFile
    /\ calls = << >>
    /\ chat = NoChat
    /\ reply = Garbage
    /\ shown = << >>
    /\ reviews = 0
    /\ outcome = "running"
    /\ pre = index

(* --------------------------- call logging ----------------------------- *)

Done(op) == [op |-> op, ok |-> TRUE]
Failed(op) == [op |-> op, ok |-> FALSE]

Invoked(op) == \E i \in 1..Len(calls) : calls[i].op = op
Count(op) == Cardinality({ i \in 1..Len(calls) : calls[i].op = op })

(* ---------------------- control-flow building blocks ------------------ *)

flow == << code, thrown, status, outcome >>
loop == << answer, reviews >>

\* the awaited call `op` completes and the workflow moves on to `next`
Proceed(op, next) ==
    /\ calls' = Append(calls, Done(op))
    /\ pc' = next
    /\ UNCHANGED << config, flow >>

\* the awaited call `op` rejects: the workflow body unwinds to `landing`
Raise(op, why, landing) ==
    /\ calls' = Append(calls, Failed(op))
    /\ thrown' = TRUE
    /\ outcome' = why
    /\ pc' = landing
    /\ UNCHANGED << config, code, status >>

\* `return n` from the workflow body, after the completed call `op`
Return_(op, n, why, landing) ==
    /\ calls' = Append(calls, Done(op))
    /\ code' = n
    /\ outcome' = why
    /\ pc' = landing
    /\ UNCHANGED << config, thrown, status >>

(* ====== CommitBuilder (src/src/main.mts) and main (part_000:103) ====== *)
(* The staging steps, the dispatch of the accepted message and the        *)
(* try/finally are the same statements in both revisions.                 *)

B == variant = "builder"
M == variant = "main"
BM == variant \in { "builder", "main" }

\* const gitRoot = (await $`git rev-parse --show-toplevel`).stdout.trim()
run_gitRoot ==
    /\ BM /\ pc = "start"
    /\ \/ Proceed("git rev-parse", "status")
       \/ Raise("git rev-parse", "error", "finally")
    /\ UNCHANGED << git, data, loop >>

\* git status --porcelain; nothing pending: return 1
run_status ==
    /\ BM /\ pc = "status"
    /\ \/ /\ Trim(StatusStdout(worktree, index)) # << >>
          /\ Proceed("git status",
                     IF ~args.lazygit THEN "intentToAdd" ELSE "setPrompt")
       \/ /\ Trim(StatusStdout(worktree, index)) = << >>
          /\ Return_("git status", Return(1), "nochanges", "finally")
       \/ Raise("git status", "error", "finally")
    /\ UNCHANGED << git, data, loop >>

\* register the untracked files with the index
run_intentToAdd ==
    /\ BM /\ pc = "intentToAdd"
    /\ \/ /\ Proceed("git add --intent-to-add", "add")
          /\ index' = IntentToAdd(worktree, index)
       \/ /\ Raise("git add --intent-to-add", "error", "finally")
          /\ UNCHANGED index
    /\ UNCHANGED << worktree, history, pending, data, loop >>

\* git add . -p when --interactive, else git add .
run_add ==
    /\ BM /\ pc = "add"
    /\ \/ /\ args.interactive
          /\ Proceed("git add -p", "setPrompt")
          /\ index' \in AddPatchResults(worktree, index)
       \/ /\ ~args.interactive
          /\ Proceed("git add", "setPrompt")
          /\ index' = AddAll(worktree, index)
       \/ /\ Raise(IF args.interactive THEN "git add -p" ELSE "git add",
                    "error", "finally")
          /\ UNCHANGED index
    /\ UNCHANGED << worktree, history, pending, data, loop >>

\* the prompt text around the trimmed diff
BuilderPrompt(diff) ==
    << NL >> \o Directive \o << NL, NL >> \o BlankHint \o << NL, NL >>
    \o DiffHeader \o << NL, NL >> \o diff \o << NL >>

MutModelNeverMissing == FALSE

\* if (!this.model)
ModelMissing == model = << >>

\* setPrompt(), then the `if (!this.model)` that decides on selectModel()
setPrompt ==
    /\ B /\ pc = "setPrompt"
    /\ \/ /\ Proceed("git diff", IF ModelMissing THEN "selectModel" ELSE "generate")
          /\ prompt' = BuilderPrompt(Trim(DiffStdout(index)))
       \/ /\ Raise("git diff", "error", "finally")
          /\ UNCHANGED prompt
    /\ UNCHANGED << git, model, message, commitMessage, refine, chat, reply, shown, loop >>

MutSwitchSkipsGeneration == IF message = << >> THEN "generate" ELSE "review"

\* await this.selectModel(); await this.generateCommitMessage()
AfterSelect == "generate"

\* selectModel(): list the models, preset this.model, let the user choose
selectModel ==
    /\ B /\ pc = "selectModel"
    /\ \/ /\ calls' = calls \o << Done("ollama.list"), Done("select") >>
          /\ model' \in InstalledModels
          /\ pc' = AfterSelect
          /\ UNCHANGED << config, flow >>
       \/ /\ calls' = calls \o << Done("ollama.list"), Failed("select") >>
          /\ model' = Coalesce(args.model, << >>)
          /\ thrown' = TRUE /\ outcome' = "error" /\ pc' = "finally"
          /\ UNCHANGED << config, code, status >>
       \/ /\ Raise("ollama.list", "error", "finally")
          /\ UNCHANGED model
    /\ UNCHANGED << git, prompt, message, commitMessage, refine, chat, reply, shown, loop >>

MutChatRequestUsesOption ==
    [sent |-> TRUE, model |-> Coalesce(args.model, << >>), prompt |-> prompt]

\* ollama.chat({ model: this.model, messages: [{ content: this.prompt }] })
ChatRequest == [sent |-> TRUE, model |-> model, prompt |-> prompt]

MutMessageAccumulates(previous, composed) == previous \o composed

\* this.message = message
StoreMessage(previous, composed) == composed

\* generateCommitMessage(): chat, decode, compose into this.message
generateCommitMessage ==
    /\ B /\ pc = "generate"
    /\ \/ \E content \in Responses :
            LET draft == Decode(content) IN
            /\ chat' = ChatRequest
            /\ reply' = content
            /\ commitMessage' = draft
            /\ \/ /\ draft.ok
                  /\ Proceed("ollama.chat", "review")
                  /\ message' = StoreMessage(message,
                                     Compose(draft.commitTitle,
                                             draft.commitDescription,
                                             model, args.wip))
                  /\ shown' = message'
               \/ /\ ~draft.ok
                  /\ calls' = Append(calls, Done("ollama.chat"))
                  /\ thrown' = TRUE /\ outcome' = "decode" /\ pc' = "finally"
                  /\ UNCHANGED << config, code, status, message, shown >>
       \/ /\ Raise("ollama.chat", "error", "finally")
          /\ chat' = ChatRequest
          /\ UNCHANGED << message, commitMessage, reply, shown >>
    /\ UNCHANGED << git, prompt, model, refine, loop >>

\* the choices of the expand() prompt
BuilderAnswers == { "y", "m", "a", "n", "r", "s" }

\* the answers that regenerate or redisplay instead of ending the loop
Looping(a) == a \in { "r", "m", "s" }

MutAcceptsAbort(a) == a \in { "a", "y", "n" }

\* case "a": case "y": break
Accepts(a) == a \in { "a", "y" }

MutDispatchAlwaysCommits == "commit"

\* where the accepted message goes
Dispatch == IF args.lazygit THEN "writeFile" ELSE "commit"

MutRetrySelectsModel == "selectModel"

MutRetryEndsLoop == "finally"

\* case "r": await this.generateCommitMessage(); continue
AfterRetry == "generate"

\* one turn of the while (true): the message is on screen (printed when the
\* loop was entered); read the answer and switch on it
review ==
    /\ B /\ pc = "review"
    /\ reviews' = reviews + 1
    /\ \/ \E a \in BuilderAnswers :
            /\ Looping(a) => reviews < MaxReviews
            /\ answer' = a
            /\ \/ /\ a = "r" /\ Proceed("expand", AfterRetry)
               \/ /\ a = "m" /\ Proceed("expand", "selectModel")
               \/ /\ a = "s" /\ Proceed("expand", "continue")
               \/ /\ Accepts(a) /\ Proceed("expand", Dispatch)
               \/ /\ ~Looping(a) /\ ~Accepts(a)
                  /\ Return_("expand", Return(1), "abort", "finally")
       \/ /\ Raise("expand", "error", "finally")
          /\ UNCHANGED answer
    /\ UNCHANGED << git, data >>

\* case "s": the prompt was printed; wait for the acknowledgement, then the
\* loop prints the unchanged message again
showPrompt ==
    /\ B /\ pc = "continue"
    /\ \/ /\ Proceed("expand continue", "review")
          /\ shown' = message
       \/ /\ Raise("expand continue", "error", "finally")
          /\ UNCHANGED shown
    /\ UNCHANGED << git, prompt, model, message, commitMessage, refine, chat, reply, loop >>

\* fs.writeFile(<gitRoot>/.git/LAZYGIT_PENDING_COMMIT, this.message); return 0
writeFile ==
    /\ BM /\ pc = "writeFile"
    /\ \/ /\ Return_("fs.writeFile", Return(0), "handoff", "finally")
          /\ pending' = [exists |-> TRUE, path |-> HandoffPath, content |-> message]
       \/ /\ Raise("fs.writeFile", "error", "finally")
          /\ UNCHANGED pending
    /\ UNCHANGED << worktree, index, history, data, loop >>

\* the commit `git commit -F -` records from the index and its stdin
NewCommit(body, idx) == [message |-> body, paths |-> idx.staged, amended |-> FALSE]

MutAmendAfterAnyAccept(a) == a \in { "a", "y" }

\* if (answer === "a")
AmendRequested(a) == a = "a"

\* git commit -F - fed with this.message; then amend, or return 0
commit ==
    /\ BM /\ pc = "commit"
    /\ \/ /\ Committable(index)
          /\ history' = Append(history, NewCommit(message, index))
          /\ worktree' = worktree \ index.staged
          /\ index' = [index EXCEPT !.staged = {}]
          /\ \/ /\ AmendRequested(answer) /\ Proceed("git commit", "amend")
             \/ /\ ~AmendRequested(answer)
                /\ Return_("git commit", Return(0), "committed", "finally")
       \/ /\ Raise("git commit", "error", "finally")
          /\ UNCHANGED << worktree, index, history >>
    /\ UNCHANGED << pending, data, loop >>

\* git commit --amend in the user's editor; return 0
amend ==
    /\ BM /\ pc = "amend"
    /\ \/ /\ Return_("git commit --amend", Return(0), "committed", "finally")
          /\ history' = [history EXCEPT ![Len(history)].amended = TRUE]
       \/ /\ Raise("git commit --amend", "error", "finally")
          /\ UNCHANGED history
    /\ UNCHANGED << worktree, index, pending, data, loop >>

MutResetOnlyOnNormalReturn == ~args.lazygit /\ ~thrown

\* if (!args.lazygit) in the finally block
ResetWanted == ~args.lazygit

\* finally { if (!args.lazygit) await $`git reset HEAD` }
finally ==
    /\ BM /\ pc = "finally"
    /\ pc' = "exit"
    /\ \/ /\ ResetWanted
          /\ calls' = Append(calls, Done("git reset"))
          /\ index' = ResetHead(index)
          /\ UNCHANGED thrown
       \/ /\ ResetWanted
          /\ calls' = Append(calls, Failed("git reset"))
          /\ thrown' = TRUE
          /\ UNCHANGED index
       \/ /\ ~ResetWanted
          /\ UNCHANGED << calls, index, thrown >>
    /\ UNCHANGED << config, code, status, outcome, worktree, history, pending,
                    data, loop >>

MutExitIgnoresThrow == ExitStatusOf(code)

\* the status the process ends with: the argument of process.exit, or 1
\* when the rejection of run() was never caught
ExitStatus == IF thrown THEN 1 ELSE ExitStatusOf(code)

\* process.exit(code), or the uncaught rejection ending the process with 1
exit ==
    /\ pc = "exit"
    /\ pc' = "exited"
    /\ status' = ExitStatus
    /\ UNCHANGED << config, code, thrown, outcome, git, data, loop, calls >>

(* ============ main with the ask() loop (part_000:103-225) ============ *)

\* the template literal of const prompt, with refine interpolated
MainPrompt(refineText, diff) ==
    << NL >> \o Directive \o << NL >> \o refineText \o << NL, NL >>
    \o DiffHeader \o << NL, NL >> \o diff \o << NL >>

\* git diff -U10 --cached; let refine = ""; const prompt = `...`
main_prompt ==
    /\ M /\ pc = "setPrompt"
    /\ \/ /\ Proceed("git diff", "generate")
          /\ refine' = << >>
          /\ prompt' = MainPrompt(refine', Trim(DiffStdout(index)))
       \/ /\ Raise("git diff", "error", "finally")
          /\ UNCHANGED << prompt, refine >>
    /\ UNCHANGED << git, model, message, commitMessage, chat, reply, shown, loop >>

\* what the loop prints: the title, a blank line, the description
Preview(draft) == draft.commitTitle \o << NL, NL >> \o draft.commitDescription

MutDecodeFailureReturnsZero == Return(0)

\* return 1 in the catch around the decode
DecodeFailureReturn == Return(1)

\* top of the loop: chat with args.model, decode (return 1 on failure), print
main_generate ==
    /\ M /\ pc = "generate"
    /\ chat' = [sent |-> TRUE, model |-> args.model.value, prompt |-> prompt]
    /\ \/ \E content \in Responses :
            LET draft == Decode(content) IN
            /\ reply' = content
            /\ commitMessage' = draft
            /\ \/ /\ draft.ok
                  /\ Proceed("ollama.chat", "review")
                  /\ shown' = Preview(draft)
               \/ /\ ~draft.ok
                  /\ Return_("ollama.chat", DecodeFailureReturn, "decode", "finally")
                  /\ UNCHANGED shown
       \/ /\ Raise("ollama.chat", "error", "finally")
          /\ UNCHANGED << commitMessage, reply, shown >>
    /\ UNCHANGED << git, prompt, model, message, refine, loop >>

\* what the user may type at "Proceed with commit? (y/a/n/r/e/?): "
MainAnswers == { "y", "a", "n", "r", "e", "?", "", "x" }

\* the cases that `continue`
MainLooping(a) == a \in { "?", "r", "e" }

\* ask, switch; on a/y apply the WIP marker and compose the message
main_review ==
    /\ M /\ pc = "review"
    /\ reviews' = reviews + 1
    /\ \E a \in MainAnswers :
         /\ MainLooping(a) => reviews < MaxReviews
         /\ answer' = a
         /\ \/ /\ a \in { "?", "r" } /\ Proceed("ask", "generate")
               /\ UNCHANGED message
            \/ /\ a = "e" /\ Proceed("ask", "refine")
               /\ UNCHANGED message
            \/ /\ Accepts(a) /\ Proceed("ask", Dispatch)
               /\ message' = Compose(commitMessage.commitTitle,
                                      commitMessage.commitDescription,
                                      args.model.value, args.wip)
            \/ /\ ~MainLooping(a) /\ ~Accepts(a)
               /\ Return_("ask", Return(1), "abort", "finally")
               /\ UNCHANGED message
    /\ UNCHANGED << git, prompt, model, commitMessage, refine, chat, reply, shown >>

\* what the user may type at "Add to prompt> "
Refinements == { << "mention the author" >>, << >> }

\* case "e": refine = await ask("Add to prompt> "); continue
main_refine ==
    /\ M /\ pc = "refine"
    /\ refine' \in Refinements
    /\ Proceed("ask refine", "generate")
    /\ UNCHANGED << git, prompt, model, message, commitMessage, chat, reply, shown, loop >>

(* ============== the earliest main (part_000:307-376) ================== *)

F == variant = "first"

\* git rev-parse --show-toplevel
first_gitRoot ==
    /\ F /\ pc = "start"
    /\ \/ Proceed("git rev-parse", "status")
       \/ Raise("git rev-parse", "error", "exit")
    /\ UNCHANGED << git, data, loop >>

\* git status --porcelain; nothing pending: a bare `return;`
first_status ==
    /\ F /\ pc = "status"
    /\ \/ /\ Trim(StatusStdout(worktree, index)) # << >>
          /\ Proceed("git status", "add")
       \/ /\ Trim(StatusStdout(worktree, index)) = << >>
          /\ Return_("git status", ReturnUndefined, "nochanges", "exit")
       \/ Raise("git status", "error", "exit")
    /\ UNCHANGED << git, data, loop >>

\* git add .
first_add ==
    /\ F /\ pc = "add"
    /\ \/ /\ Proceed("git add", "setPrompt")
          /\ index' = AddAll(worktree, index)
       \/ /\ Raise("git add", "error", "exit")
          /\ UNCHANGED index
    /\ UNCHANGED << worktree, history, pending, data, loop >>

FirstPrompt(diff) ==
    << NL >> \o FirstDirective \o << NL, NL >> \o diff \o << NL >>

\* git diff --cached and the prompt
first_prompt ==
    /\ F /\ pc = "setPrompt"
    /\ \/ /\ Proceed("git diff", "generate")
          /\ prompt' = FirstPrompt(Trim(DiffStdout(index)))
       \/ /\ Raise("git diff", "error", "exit")
          /\ UNCHANGED prompt
    /\ UNCHANGED << git, model, message, commitMessage, refine, chat, reply, shown, loop >>

\* chat with "mistral:latest"; on a decode failure git reset HEAD and return 1
first_generate ==
    /\ F /\ pc = "generate"
    /\ chat' = [sent |-> TRUE, model |-> DefaultModel, prompt |-> prompt]
    /\ \/ \E content \in Responses :
            LET draft == Decode(content) IN
            /\ reply' = content
            /\ commitMessage' = draft
            /\ \/ /\ draft.ok
                  /\ Proceed("ollama.chat", "review")
                  /\ shown' = Preview(draft)
                  /\ UNCHANGED index
               \/ /\ ~draft.ok
                  /\ calls' = calls \o << Done("ollama.chat"), Done("git reset") >>
                  /\ index' = ResetHead(index)
                  /\ code' = Return(1) /\ outcome' = "decode" /\ pc' = "exit"
                  /\ UNCHANGED << config, thrown, status, shown >>
               \/ /\ ~draft.ok
                  /\ calls' = calls \o << Done("ollama.chat"), Failed("git reset") >>
                  /\ thrown' = TRUE /\ outcome' = "decode" /\ pc' = "exit"
                  /\ UNCHANGED << config, code, status, shown, index >>
       \/ /\ Raise("ollama.chat", "error", "exit")
          /\ UNCHANGED << commitMessage, reply, shown, index >>
    /\ UNCHANGED << worktree, history, pending, prompt, model, message, refine, loop >>

\* what the user may type at "Proceed with commit? (y/N): "
FirstAnswers == { "y", "n", "" }

\* anything but "y": git reset HEAD and return 1
first_confirm ==
    /\ F /\ pc = "review"
    /\ reviews' = reviews + 1
    /\ \E a \in FirstAnswers :
         /\ answer' = a
         /\ \/ /\ a = "y" /\ Proceed("ask", "commit")
               /\ message' = FirstCompose(commitMessage.commitTitle,
                                           commitMessage.commitDescription, args.wip)
               /\ UNCHANGED index
            \/ /\ a # "y"
               /\ calls' = calls \o << Done("ask"), Done("git reset") >>
               /\ index' = ResetHead(index)
               /\ code' = Return(1) /\ outcome' = "abort" /\ pc' = "exit"
               /\ UNCHANGED << config, thrown, status, message >>
            \/ /\ a # "y"
               /\ calls' = calls \o << Done("ask"), Failed("git reset") >>
               /\ thrown' = TRUE /\ outcome' = "abort" /\ pc' = "exit"
               /\ UNCHANGED << config, code, status, message, index >>
    /\ UNCHANGED << worktree, history, pending, prompt, model, commitMessage,
                    refine, chat, reply, shown >>

\* git commit -m <title, blank line, description>; main ends without a value
first_commit ==
    /\ F /\ pc = "commit"
    /\ \/ /\ Committable(index)
          /\ history' = Append(history, NewCommit(message, index))
          /\ worktree' = worktree \ index.staged
          /\ index' = [index EXCEPT !.staged = {}]
          /\ Return_("git commit", ReturnUndefined, "committed", "exit")
       \/ /\ Raise("git commit", "error", "exit")
          /\ UNCHANGED << worktree, index, history >>
    /\ UNCHANGED << pending, data, loop >>

Next ==
    \/ run_gitRoot
    \/ run_status
    \/ run_intentToAdd
    \/ run_add
    \/ setPrompt
    \/ selectModel
    \/ generateCommitMessage
    \/ review
    \/ showPrompt
    \/ writeFile
    \/ commit
    \/ amend
    \/ finally
    \/ main_prompt
    \/ main_generate
    \/ main_review
    \/ main_refine
    \/ first_gitRoot
    \/ first_status
    \/ first_add
    \/ first_prompt
    \/ first_generate
    \/ first_confirm
    \/ first_commit
    \/ exit

Spec == Init /\ [][Next]_vars

\* Whether the run ends does not depend on what was staged beforehand, so
\* the runs start from a clean index, with nothing or with every path changed.
FairInit == Init /\ worktree \in { {}, Paths } /\ index = CleanIndex

\* Every step of the workflow is an awaited call or a prompt: the run goes
\* on once the call settles or the user answers, and nothing else is
\* scheduled beside it, so a step that can be taken is eventually taken.
FairSpec == FairInit /\ [][Next]_vars /\ WF_vars(Next)

(* ============================== claims ================================ *)

StartsWith(s, p) == Len(p) <= Len(s) /\ SubSeq(s, 1, Len(p)) = p

\* the lines of a string: split on the newline token
RECURSIVE Lines(_)
Lines(s) ==
    IF \A i \in 1..Len(s) : s[i] # NL
    THEN << s >>
    ELSE LET k == CHOOSE i \in 1..Len(s) :
                      s[i] = NL /\ \A j \in 1..(i - 1) : s[j] # NL
         IN  << SubSeq(s, 1, k - 1) >> \o Lines(SubSeq(s, k + 1, Len(s)))

FirstLine(s) == Lines(s)[1]
LastLine(s) == Lines(s)[Len(Lines(s))]

LastCall == calls[Len(calls)]
LastCallIs(op) == calls # << >> /\ LastCall.op = op
Finished == pc \in { "exit", "exited" }
Staged == index.staged # {} \/ index.ita # {}

\* the git operations that change the index or the history
IndexOps == { "git add --intent-to-add", "git add", "git add -p",
              "git commit", "git commit --amend", "git reset" }

\* C1: without --lazygit, on every way out of the workflow body (commit,
\* no changes, abort, or an error thrown by git, the model call, the model
\* selection or the decode) git reset HEAD runs, once, after the body has
\* finished and before the process exits.
C1_ResetOnEveryExit ==
    (BM /\ ~args.lazygit) =>
        /\ Finished => Count("git reset") = 1 /\ LastCallIs("git reset")
        /\ ~Finished => Count("git reset") = 0

C1_Witness ==
    /\ BM /\ ~args.lazygit /\ pc = "exited"
    /\ thrown /\ outcome \in { "error", "decode" }
    /\ LastCall = Done("git reset")

\* C2: without --lazygit, whenever the invocation ends without a commit
\* (no changes, abort or error), the index is what it was before the
\* invocation, also when it already held staged changes.
C2_IndexRestored ==
    (BM /\ ~args.lazygit /\ pc = "exited" /\ history = << >>
        /\ LastCall = Done("git reset"))
    => index = pre

\* C3: with --lazygit no git operation that changes the index or the history
\* is invoked, whatever the outcome; on accept or accept-and-amend the
\* composed message is written to <gitRoot>/.git/LAZYGIT_PENDING_COMMIT and
\* nothing else is persisted.
C3_HandoffLeavesGitAlone ==
    (BM /\ args.lazygit) =>
        /\ \A i \in 1..Len(calls) : calls[i].op \notin IndexOps
        /\ index = pre
        /\ history = << >>
        /\ pending.exists =>
              /\ pending.path = HandoffPath
              /\ pending.content = message
              /\ answer \in { "a", "y" }
        /\ (pc = "exited" /\ answer \in { "a", "y" } /\ ~thrown) => pending.exists

C3_Witness ==
    /\ BM /\ args.lazygit /\ pc = "exited" /\ answer = "a"
    /\ pending.exists /\ pre.staged # {}

\* C4: the commit or the hand-off file is written at most once in an
\* invocation, and only after the user answered accept or accept-and-amend;
\* after an abort, an unrecognised answer, the no-changes exit or a failure
\* before acceptance there is no commit and no hand-off file.
C4_WrittenOnceAfterAccept ==
    BM =>
        /\ Count("git commit") + Count("fs.writeFile") <= 1
        /\ Len(history) <= 1
        /\ (Invoked("git commit") \/ Invoked("fs.writeFile"))
              => answer \in { "a", "y" } /\ reviews >= 1
        /\ answer \notin { "a", "y" } => history = << >> /\ ~pending.exists
        /\ outcome \in { "abort", "nochanges", "decode" }
              => history = << >> /\ ~pending.exists

C4_Witness ==
    /\ BM /\ pc = "exited" /\ reviews >= 2
    /\ Len(history) = 1 /\ answer = "y"

\* position in the log of the last ollama.chat call
LastChatCall ==
    CHOOSE i \in 1..Len(calls) :
        /\ calls[i].op = "ollama.chat"
        /\ \A j \in (i + 1)..Len(calls) : calls[j].op # "ollama.chat"

\* the last generation got a response and could not decode it
DecodeFailed ==
    /\ Invoked("ollama.chat")
    /\ calls[LastChatCall].ok
    /\ ~commitMessage.ok

\* C5: a response that is not valid JSON or fails the schema, on the first
\* generation or on a regeneration, ends the invocation with a non-zero exit
\* status: no further review prompt, no further model call, no commit, and
\* without --lazygit the index is reset.
C5_DecodeFailureIsFatal ==
    (BM /\ DecodeFailed) =>
        /\ pc \in { "finally", "exit", "exited" }
        /\ \A i \in (LastChatCall + 1)..Len(calls) : calls[i].op = "git reset"
        /\ history = << >> /\ ~pending.exists
        /\ (Finished /\ ~args.lazygit) => Invoked("git reset")
        /\ (LastCall = Done("git reset")) => ~Staged
        /\ pc = "exited" => status # 0

C5_Witness ==
    /\ BM /\ DecodeFailed /\ pc = "exited" /\ ~args.lazygit
    /\ reviews >= 1 /\ answer \in { "r", "m" }
    /\ LastCall = Done("git reset")

\* the response is JSON for an object with both fields as strings
WellFormed(content) ==
    /\ content.syntax = "json"
    /\ content.value.type = "object"
    /\ \A k \in { "commitTitle", "commitDescription" } :
          /\ k \in DOMAIN content.value.fields
          /\ content.value.fields[k].type = "string"

RawTitle == reply.value.fields["commitTitle"].s
RawDescription == reply.value.fields["commitDescription"].s

\* a chat call completed in this step
ChatAnswered ==
    /\ Len(calls') = Len(calls) + 1
    /\ calls'[Len(calls')] = Done("ollama.chat")

\* C6: a response that omits commitTitle or commitDescription, gives either
\* as a non-string, or is no JSON at all, always ends in an error and never
\* in a partly filled message: the decode succeeds exactly for well-formed
\* responses, this.message is assigned only then, and a failed decode leaves
\* it as it was.
C6_DecodeAllOrNothing ==
    /\ [](B /\ Invoked("ollama.chat") /\ calls[LastChatCall].ok =>
            /\ commitMessage.ok <=> WellFormed(reply)
            /\ commitMessage.ok =>
                  /\ commitMessage.commitTitle = RawTitle
                  /\ commitMessage.commitDescription = RawDescription
            /\ ~WellFormed(reply) => thrown /\ outcome = "decode")
    /\ [][B /\ ChatAnswered /\ ~WellFormed(reply')
            => message' = message /\ thrown']_vars
    /\ [][B /\ message' # message => ChatAnswered /\ WellFormed(reply')]_vars

C6_Witness ==
    /\ B /\ DecodeFailed /\ message # << >>
    /\ reply = Document(JObj([commitTitle |-> JStr(<< "x" >>)]))

\* C7: when git status reports nothing pending the workflow exits with
\* status 1 and makes no staging call, no diff, no model listing and no chat.
C7_NoChangesExitsOne ==
    outcome = "nochanges" =>
        /\ \A i \in 1..Len(calls) :
              calls[i].op \in { "git rev-parse", "git status", "git reset" }
        /\ pc = "exited" => status = 1

\* C8: the exit code is 0 exactly when the invocation ended with a commit
\* or a hand-off write, and 1 after the no-changes exit, an abort (an
\* unrecognised answer included) or a decode failure.
C8_ExitCodes ==
    pc = "exited" =>
        /\ status = 0 <=> (~thrown /\ outcome \in { "committed", "handoff" })
        /\ outcome \in { "nochanges", "abort", "decode" } => status = 1

\* title, blank line, description, blank line, footer naming the model
Body(t, d, m) ==
    t \o << NL, NL >> \o d \o << NL, NL, "Commit message by " >> \o m

\* C9: without --wip the composed message is exactly T, blank line, D, blank
\* line, "Commit message by M", where T and D are the strings of the response
\* and M is the model the generation call was made with; an empty D keeps
\* its line; this body is what the commit or the hand-off write receives.
C9_ComposedBody ==
    (BM /\ ~args.wip) =>
        /\ (B /\ pc = "review") => message = Body(RawTitle, RawDescription, chat.model)
        /\ history # << >> =>
              history[1].message = Body(RawTitle, RawDescription, chat.model)
        /\ pending.exists =>
              pending.content = Body(RawTitle, RawDescription, chat.model)

C9_Witness ==
    /\ B /\ ~args.wip /\ pc = "exited" /\ history # << >>
    /\ history[1].message =
          << "Add foo", NL, NL, NL, NL, "Commit message by ", "m2" >>

HasLine(s, l) == \E i \in 1..Len(Lines(s)) : Lines(s)[i] = l

\* C10 as stated: with --wip the first line begins with "WIP: " and the
\* last line is "[skip ci]"; without --wip neither marker appears.
C10_MarkersIffWip ==
    (BM /\ message # << >>) =>
        IF args.wip
        THEN /\ StartsWith(FirstLine(message), WipMarker)
             /\ LastLine(message) = SkipCi
        ELSE /\ ~StartsWith(FirstLine(message), WipMarker)
             /\ ~HasLine(message, SkipCi)

\* C10 amended: with --wip the first line begins with "WIP: " and the last
\* line is "[skip ci]"; without --wip the program adds neither: the first
\* line begins with "WIP: " only if the model's title does, and a
\* "[skip ci]" line is present only if the title or description holds one.
C10_MarkersAddedIffWip ==
    (BM /\ message # << >> /\ commitMessage.ok) =>
        IF args.wip
        THEN /\ StartsWith(FirstLine(message), WipMarker)
             /\ LastLine(message) = SkipCi
        ELSE /\ StartsWith(FirstLine(message), WipMarker)
                  <=> StartsWith(commitMessage.commitTitle, WipMarker)
             /\ HasLine(message, SkipCi)
                  <=> \/ HasLine(commitMessage.commitTitle, SkipCi)
                      \/ HasLine(commitMessage.commitDescription, SkipCi)

C10_Witness ==
    /\ BM /\ args.wip /\ history # << >>
    /\ StartsWith(history[1].message, WipMarker \o << "Add foo" >>)
    /\ LastLine(history[1].message) = SkipCi

\* r occurs in p as a whole, after the text a and before the text b
Occurs(p, r, from) ==
    from + Len(r) - 1 <= Len(p) /\ SubSeq(p, from, from + Len(r) - 1) = r

Between(p, a, r, b) ==
    \E i, k, j \in 1..Len(p) :
        /\ Occurs(p, a, i) /\ Occurs(p, r, k) /\ Occurs(p, b, j)
        /\ i + Len(a) <= k
        /\ k + Len(r) <= j

\* the generation call that follows the last answer has been made
Regenerated ==
    /\ Invoked("ollama.chat")
    /\ \A i \in LastChatCall..Len(calls) : calls[i].op \notin { "ask", "expand" }

\* C11: the review prompt offers a refine answer, and once the user chose it
\* and typed the text R, the prompt of the next generation call holds R
\* verbatim, after the fixed instructions and before the diff.
C11_RefinementReachesPrompt ==
    (M /\ answer = "e" /\ refine # << >> /\ Regenerated) =>
        Between(chat.prompt, Directive, refine, DiffHeader)

\* the operations of the last n external calls, oldest first
LastOps(n) ==
    IF Len(calls) < n THEN << >>
    ELSE [i \in 1..n |-> calls[Len(calls) - n + i].op]

LastSucceeded(n) ==
    Len(calls) >= n /\ \A i \in (Len(calls) - n + 1)..Len(calls) : calls[i].ok

\* the steps of the builder's review loop
InLoop == pc \in { "review", "generate", "selectModel", "continue" }

\* the review prompt is on screen again after the answer m
SwitchedModel == B /\ answer = "m" /\ pc = "review"

C12_SwitchRegeneratesOnce ==
    SwitchedModel =>
        /\ LastOps(4) = << "expand", "ollama.list", "select", "ollama.chat" >>
        /\ LastSucceeded(4)
        /\ model \in InstalledModels
        /\ chat.model = model
        /\ chat.prompt = prompt

C12_LoopKeepsModel ==
    (B /\ InLoop) =>
        /\ pc # "selectModel" => model' = model
        /\ prompt' = prompt

\* C12: answering retry never clears or changes the selected model, and
\* answering switch-model leads, before the review prompt is shown again, to
\* exactly one new generation call, made with the model just selected and
\* the prompt as it was.
C12_ModelAcrossReviews ==
    [] C12_SwitchRegeneratesOnce /\ [][C12_LoopKeepsModel]_vars

C12_Witness ==
    /\ SwitchedModel /\ Count("select") = 2 /\ Count("ollama.chat") = 2
    /\ chat.model = << "m2" >> /\ args.model = Given(<< "m1" >>)

\* what the claim expects on screen: the title and the description the
\* model produced, and nothing else
RawPreview == RawTitle \o << NL, NL >> \o RawDescription

\* C13: the message on screen at the review prompt is the model's raw
\* title and description, without WIP marker or footer; marker, footer and
\* [skip ci] are put on only after the answer accept or accept-and-amend,
\* not at each generation.
C13_PreviewIsRaw ==
    (BM /\ pc = "review") =>
        /\ shown = RawPreview
        /\ message = << >>

\* the position of the first generation call
FirstChatCall ==
    CHOOSE i \in 1..Len(calls) :
        /\ calls[i].op = "ollama.chat"
        /\ \A j \in 1..(i - 1) : calls[j].op # "ollama.chat"

\* the models were listed and a choice was asked for before the first
\* generation call
SelectedBeforeFirstChat ==
    \E i \in 1..(FirstChatCall - 1) : calls[i].op \in { "ollama.list", "select" }

\* C14: the models are listed and a choice is required before the first
\* generation exactly when no model was given upfront; with --model <id>
\* no selection precedes the first generation, and the first generation
\* call uses <id>.
C14_OptionSkipsSelection ==
    (B /\ Invoked("ollama.chat")) =>
        /\ SelectedBeforeFirstChat <=> ~args.model.defined
        /\ (args.model.defined /\ Count("ollama.chat") = 1)
              => chat.model = args.model.value

\* every git commit --amend comes right after a git commit that succeeded
AmendFollowsCommit ==
    \A i \in 1..Len(calls) :
        calls[i].op = "git commit --amend" =>
            i > 1 /\ calls[i - 1] = Done("git commit")

\* C15: git commit --amend is invoked only after the answer
\* accept-and-amend, only without --lazygit, and only as the next step
\* after git commit succeeded: never after a plain accept, after an abort,
\* or before the commit exists; accept-and-amend without --lazygit always
\* comes to it once the commit is made.
C15_AmendOnlyWhenAsked ==
    BM =>
        /\ Invoked("git commit --amend") =>
              /\ answer = "a"
              /\ ~args.lazygit
              /\ history # << >>
              /\ Count("git commit --amend") = 1
              /\ AmendFollowsCommit
        /\ (pc = "exited" /\ answer = "a" /\ history # << >>)
              => Invoked("git commit --amend")

C15_Witness ==
    /\ BM /\ pc = "exited" /\ answer = "a" /\ ~args.lazygit
    /\ Count("git commit --amend") = 1 /\ Done("git commit --amend") = calls[Len(calls) - 1]

\* the position of the last answer to the review prompt
LastReviewCall ==
    CHOOSE i \in 1..Len(calls) :
        /\ calls[i].op \in { "ask", "expand" }
        /\ \A j \in (i + 1)..Len(calls) : calls[j].op \notin { "ask", "expand" }

\* C16: after the answers show-prompt and help the review prompt comes back
\* without any generation call, with message, prompt and model as they
\* were; show-prompt asks for one acknowledgement before that.
C16_NoRegeneration ==
    (BM /\ answer \in { "s", "?" }) =>
        /\ \A i \in LastReviewCall..Len(calls) : calls[i].op # "ollama.chat"
        /\ (answer = "s" /\ pc = "review")
              => /\ LastOps(2) = << "expand", "expand continue" >>
                 /\ LastSucceeded(2)
                 /\ shown = message

\* the generation that the answer r asked for is about to be made
Retrying == BM /\ answer = "r" /\ pc = "generate"

\* the review prompt is on screen again after the answer r
Retried == BM /\ answer = "r" /\ pc = "review"

Contains(s, r) == \E k \in 1..(Len(s) + 1) : Occurs(s, r, k)

C17_RetryRepeatsRequest ==
    /\ Retrying =>
          /\ Len(calls') = Len(calls) + 1
          /\ calls'[Len(calls')].op = "ollama.chat"
          /\ chat'.model = chat.model
          /\ chat'.prompt = chat.prompt
    /\ (BM /\ pc \in { "review", "generate", "selectModel", "continue" })
          => prompt' = prompt

C17_RetryShowsNewMessage ==
    Retried =>
        /\ LastOps(2) \in { << "expand", "ollama.chat" >>, << "ask", "ollama.chat" >> }
        /\ LastSucceeded(2)
        /\ Contains(shown, RawPreview)

\* C17: the answer retry issues exactly one new generation call, with the
\* model and the prompt of the previous generation call, and then the
\* review prompt shows the message just generated; retry, switch-model and
\* show-prompt never change the prompt.
C17_RetryRegeneratesSame ==
    [] C17_RetryShowsNewMessage /\ [][C17_RetryRepeatsRequest]_vars

C17_Witness ==
    /\ Retried /\ B /\ Count("ollama.chat") = 3 /\ Count("select") = 2
    /\ chat.model = << "m2" >> /\ RawDescription # << >>

\* C18: whenever a generation call is issued the selected model is not
\* empty, and the review prompt is reached only after a generation has
\* succeeded: the message is not empty when it is on screen, committed or
\* written to the hand-off file.
C18_ModelAndMessageSet ==
    B =>
        /\ chat.sent => chat.model # << >>
        /\ pc \in { "review", "continue" } =>
              /\ \E i \in 1..Len(calls) : calls[i] = Done("ollama.chat")
              /\ WellFormed(reply)
              /\ message # << >>
              /\ shown # << >>
        /\ history # << >> => history[1].message # << >>
        /\ pending.exists => pending.content # << >>

C18_Witness ==
    /\ B /\ pc = "review" /\ reviews = 0 /\ chat.model = << "m2" >>
    /\ args.model = Given(<< "m1" >>) /\ message # << >>

\* the workflow left the review loop without an error
LeftLoop ==
    /\ reviews > 0
    /\ pc \notin { "review", "generate", "selectModel", "continue", "refine" }
    /\ ~thrown
    /\ outcome # "decode"

C19_LoopEndsByAnswer ==
    (BM /\ LeftLoop) =>
        /\ answer \notin { "r", "m", "s", "?", "e" }
        /\ answer \in { "a", "y" } <=> outcome \in { "committed", "handoff", "running" }
        /\ answer \notin { "a", "y" } <=> outcome = "abort"

C19_TerminalOutcome ==
    (BM /\ pc = "exited") =>
        /\ outcome \in { "committed", "handoff", "abort", "nochanges", "error", "decode" }
        /\ ~args.lazygit => Invoked("git reset")

\* C19: the review loop ends only by an accept, accept-and-amend or abort
\* answer or by a fatal error, never by retry, switch-model, show-prompt or
\* help alone; when every external call returns and the user comes to
\* accept or abort, the workflow reaches a terminal state (committed,
\* handed off, aborted or failed) and, without --lazygit, git reset HEAD
\* has run by then.
C19_Terminates ==
    /\ BM => <>(pc = "exited")
    /\ (BM /\ ~args.lazygit) => <>Invoked("git reset")
    /\ [] C19_LoopEndsByAnswer
    /\ [] C19_TerminalOutcome

C19_Witness ==
    /\ BM /\ pc = "exited" /\ reviews = MaxReviews + 1 /\ outcome = "committed"
    /\ Count("ollama.chat") = MaxReviews + 1 /\ LastCall = Done("git reset")

\* the user accepted the message of the last generation
Accepted == B /\ answer \in { "a", "y" }

\* the markers put once around the title and the description of the last
\* generation
MarkedOnce ==
    Body(WipMarker \o RawTitle, RawDescription, chat.model) \o << NL >> \o SkipCi

C20_AcceptedMarkedOnce ==
    (Accepted /\ args.wip) =>
        /\ message = MarkedOnce
        /\ history # << >> => history[1].message = MarkedOnce
        /\ pending.exists => pending.content = MarkedOnce

C20_AcceptedMessageKept == Accepted => message' = message

\* C20: with --wip, after any number of retry and switch-model
\* regenerations, the accepted message has "WIP: " put once in front of the
\* title of the last generation and "[skip ci]" put once after the footer:
\* nothing piles up over the regenerations, and the message does not change
\* between the acceptance and the commit or the hand-off write.
C20_MarkersDoNotAccumulate ==
    [] C20_AcceptedMarkedOnce /\ [][C20_AcceptedMessageKept]_vars

C20_Witness ==
    /\ Accepted /\ args.wip /\ history # << >>
    /\ Count("ollama.chat") = 3 /\ Count("select") = 2
    /\ RawTitle = << "Add foo" >> /\ RawDescription = << "details" >>

\* the model named by the footer line "Commit message by <model>" of a
\* message, or the empty string when the message has no such line
FooterModel(s) ==
    LET ls == Lines(s)
        at == { i \in 1..Len(ls) : StartsWith(ls[i], FooterPrefix) }
    IN  IF at = {} THEN << >>
        ELSE LET l == ls[CHOOSE i \in at : \A j \in at : j <= i]
             IN  SubSeq(l, Len(FooterPrefix) + 1, Len(l))

\* the footer of s names the selected model, which is the model of the
\* generation call whose response gave s its title and description
FooterNamesModel(s) ==
    /\ FooterModel(s) # << >>
    /\ FooterModel(s) = model
    /\ FooterModel(s) = chat.model
    /\ calls[LastChatCall].ok
    /\ Contains(s, RawPreview)

\* C21: at every review prompt and at the commit or the hand-off write, the
\* model named in the footer of the message is the selected model and is
\* the model of the generation call that produced the message's title and
\* description, whatever retry and switch-model answers came before.
C21_FooterNamesModel ==
    B =>
        /\ pc = "review" => FooterNamesModel(message)
        /\ history # << >> => FooterNamesModel(history[1].message)
        /\ pending.exists => FooterNamesModel(pending.content)

C21_Witness ==
    /\ B /\ history # << >> /\ FooterModel(history[1].message) = << "m2" >>
    /\ args.model = Given(<< "m1" >>) /\ Count("select") = 3
    /\ Count("ollama.chat") = 3

\* git commit --amend was run and failed
AmendFailed == \E i \in 1..Len(calls) : calls[i] = Failed("git commit --amend")

AmendFailure == CHOOSE i \in 1..Len(calls) : calls[i] = Failed("git commit --amend")

C22_CommitStaysAfterFailure ==
    (BM /\ AmendFailed) =>
        /\ Len(history) = 1
        /\ history[1].message = message
        /\ ~history[1].amended
        /\ thrown
        /\ \A i \in (AmendFailure + 1)..Len(calls) :
              calls[i].op = "git reset" /\ i = AmendFailure + 1
        /\ pc = "exited" => status = 1 /\ Count("git reset") = 1

C22_CommitKept ==
    (BM /\ history # << >>) =>
        /\ Len(history') = Len(history)
        /\ history'[1].message = history[1].message
        /\ history'[1].paths = history[1].paths

\* C22: a commit that was created is never rolled back: when the amend
\* step after it fails, the commit stays in the history, the failure ends
\* the process with a non-zero status, and the only git operation that
\* runs after the failure is the git reset HEAD of the finally block.
C22_NoRollback ==
    [] C22_CommitStaysAfterFailure /\ [][C22_CommitKept]_vars

C22_Witness ==
    /\ BM /\ AmendFailed /\ pc = "exited" /\ status = 1
    /\ Len(history) = 1 /\ LastCall = Done("git reset")

====
